---- MODULE Spec2Model ----
(***************************************************************************)
(* Model of netmiko-multiple-connections.py: main() reads the inventory    *)
(* and the command list, multi_connections() walks the inventory and, for  *)
(* each record, builds a NetmikoOperator, runs exec_command() and close(). *)
(*                                                                         *)
(* Strings are sequences of tokens, so that file names are built the way   *)
(* the f-strings build them.  The SSH library and ping3 are outside the    *)
(* repository: each call into them is a nondeterministic choice between    *)
(* returning and raising one of the exception classes exec_command and     *)
(* ping_check distinguish.                                                 *)
(***************************************************************************)
EXTENDS Integers, Sequences, FiniteSets, TLC

(***************************************************************************)
(* Bounds of the model.                                                    *)
(***************************************************************************)
MaxHosts == 2      \* inventory records of a run over several devices
MaxCmds == 2       \* commands of a run over one device
MaxClock == 2      \* clock readings 0..MaxClock, in half seconds
MaxCsvLines == 2   \* data lines of a command file read on its own
MaxLineLen == 1    \* characters per line of such a file

Hosts == {"h1", "h2"}
CmdChars == {"a", "b"}
Outputs == {<<"x">>, <<"y", "LF", "z">>}

(***************************************************************************)
(* Text helpers.                                                           *)
(***************************************************************************)
RECURSIVE SeqsUpTo(_, _)
SeqsUpTo(S, n) ==
    IF n = 0 THEN {<<>>}
    ELSE LET shorter == SeqsUpTo(S, n - 1)
         IN shorter \cup {Append(s, x) : s \in shorter, x \in S}

RECURSIVE Flatten(_)
Flatten(ss) == IF ss = <<>> THEN <<>> ELSE Head(ss) \o Flatten(Tail(ss))

\* open(csv_file, 'r') reads with universal newlines: "\r\n" and "\r" arrive
\* as "\n".
RECURSIVE TranslateNewlines(_)
TranslateNewlines(text) ==
    IF text = <<>> THEN <<>>
    ELSE IF Head(text) = "CR"
         THEN IF Len(text) > 1 /\ text[2] = "LF"
              THEN <<"LF">> \o TranslateNewlines(Tail(Tail(text)))
              ELSE <<"LF">> \o TranslateNewlines(Tail(text))
         ELSE <<Head(text)>> \o TranslateNewlines(Tail(text))

\* The characters str.splitlines() breaks at.  "FF" stands for the form
\* feed and the other boundaries besides "\n" and "\r" (\v, \x1c, \x1d,
\* \x1e, \x85, U+2028, U+2029).
LineBoundaries == {"LF", "CR", "FF"}

RECURSIVE SplitAcc(_, _, _)
SplitAcc(text, cur, acc) ==
    IF text = <<>>
    THEN IF cur = <<>> THEN acc ELSE Append(acc, cur)
    ELSE IF Head(text) \in LineBoundaries
         THEN LET rest == IF Head(text) = "CR" /\ Len(text) > 1 /\ text[2] = "LF"
                          THEN Tail(Tail(text))
                          ELSE Tail(text)
              IN SplitAcc(rest, <<>>, Append(acc, cur))
         ELSE SplitAcc(Tail(text), Append(cur, Head(text)), acc)

\* str.splitlines(): no trailing empty string after a final line break.
splitlines(text) == SplitAcc(text, <<>>, <<>>)

(***************************************************************************)
(* CSVOperator.                                                            *)
(***************************************************************************)
None == [isNone |-> TRUE, val |-> <<>>]
Some(v) == [isNone |-> FALSE, val |-> v]

\* del commandlist[0]
DelHeader(commandlist) == Tail(commandlist)

\* read_hostlist: the rows of the file as a list of dicts, None after the
\* I/O error branch.
read_hostlist(f) ==
    IF f.exists THEN [kind |-> "return", val |-> Some(f.rows)]
    ELSE [kind |-> "return", val |-> None]

\* A read_commandlist that drops the header only when there is one.
read_commandlist_guarded(f) ==
    IF ~f.exists THEN [kind |-> "return", val |-> None]
    ELSE LET commandlist == splitlines(TranslateNewlines(f.text))
         IN [kind |-> "return",
             val |-> Some(IF commandlist = <<>> THEN <<>> ELSE DelHeader(commandlist))]

\* read_commandlist: the lines of the file without the first one, None
\* after the I/O error branch; del on an empty list raises IndexError,
\* which is no IOError.
read_commandlist(f) ==
    IF ~f.exists THEN [kind |-> "return", val |-> None]
    ELSE LET commandlist == splitlines(TranslateNewlines(f.text))
         IN IF commandlist = <<>>
            THEN [kind |-> "IndexError", val |-> None]
            ELSE [kind |-> "return", val |-> Some(DelHeader(commandlist))]

IOErrorMessage(csv_file) == <<"I/O error: ", csv_file, "LF">>

(***************************************************************************)
(* Files a run can be given.                                               *)
(***************************************************************************)
\* A file of the working directory: rows are the records or lines it was
\* written from, text its characters (kept for the command file only).
NoFile == [exists |-> FALSE, rows |-> <<>>, text |-> <<>>]

HostRecord(h) ==
    [host |-> h, username |-> "user", password |-> "pw", secret |-> "sec"]

HostFiles(n) ==
    {NoFile} \cup
    {[exists |-> TRUE, rows |-> rows, text |-> <<>>] :
        rows \in SeqsUpTo({HostRecord(h) : h \in Hosts}, n)}

\* A text file written from the given lines, each ended by eol; the last
\* line may go without its line end.
TextOf(lines, eol, lastEol) ==
    Flatten([n \in 1..Len(lines) |->
                IF n = Len(lines) /\ ~lastEol THEN lines[n] ELSE lines[n] \o eol])

TextFile(lines, eol, lastEol) ==
    [exists |-> TRUE, rows |-> lines, text |-> TextOf(lines, eol, lastEol)]

\* Command files of a run: missing, empty, or a header and up to n
\* one-character commands.
CmdFiles(n) ==
    {NoFile, TextFile(<<>>, <<"LF">>, TRUE)} \cup
    {TextFile(<< <<"c">> >> \o lines, <<"LF">>, TRUE) :
        lines \in SeqsUpTo({<<c>> : c \in CmdChars}, n)}

\* Command files read on their own: missing, empty, or a header and up to
\* MaxCsvLines data lines of up to MaxLineLen characters, with "\n" or
\* "\r\n" line ends, the last line with or (unless it is empty) without one.
CsvChars == {"a", "FF"}

CsvLines == SeqsUpTo(CsvChars, MaxLineLen)

CsvFiles ==
    {NoFile, TextFile(<<>>, <<"LF">>, TRUE)} \cup
    {TextFile(c[1], c[2], c[3]) :
        c \in {c \in {<<header>> \o lines : header \in CsvLines,
                                              lines \in SeqsUpTo(CsvLines, MaxCsvLines)}
                      \X {<<"LF">>, <<"CR", "LF">>} \X BOOLEAN :
                  c[3] \/ c[1][Len(c[1])] # <<>>}}

(***************************************************************************)
(* NetmikoOperator: names, tags, files, logger.                            *)
(***************************************************************************)
\* strftime('%Y%m%d-%H%M%S') of a clock reading: whole seconds.
strftime(t) == ToString(t \div 2)

\* logdir = f'log-{timeinfo}'
LogDirName(timeinfo) == <<"log-", timeinfo>>

\* A prefix that repeats the time stamp of the run directory.
file_prefix_run_stamp(logdir, hostname, timeinfo) ==
    logdir \o <<"/", hostname, "-", logdir[2], "-JST">>

\* file_prefix = f"{self.logdir}/{self.hostname}-{self.timeinfo}-JST"
file_prefix(logdir, hostname, timeinfo) ==
    logdir \o <<"/", hostname, "-", timeinfo, "-JST">>

\* self.loggingfile = f"{file_prefix}-logging.log"
loggingfile_name(prefix) == prefix \o <<"-logging", ".log">>

\* self.outputfile = f"{file_prefix}.log"
outputfile_name(prefix) == prefix \o <<".log">>

\* A new name with the tag put before the ".log" suffix.
loginfo_renamed_before_suffix(outputfile, key) ==
    SubSeq(outputfile, 1, Len(outputfile) - 1) \o <<"-", key, ".log">>

\* loginfo_renamed = self.outputfile + f'-{key}.log'
loginfo_renamed(outputfile, key) == outputfile \o <<"-", key, ".log">>

\* A rename that leaves the source in place.
os_rename_keeps_source(fs, src, dst) == fs \cup {dst}

\* os.rename(src, dst) on a file system that holds src.
os_rename(fs, src, dst) == (fs \ {src}) \cup {dst}

\* The exception classes exec_command tells apart; "Exception" is any other.
ExcClasses ==
    {"NetMikoAuthenticationException", "NetMikoTimeoutException",
     "ReadTimeout", "Exception"}

\* The error_msg of the except clause that catches an exception.
error_msg(e) ==
    CASE e = "NetMikoAuthenticationException" -> "SSHAuthenticationError"
      [] e = "NetMikoTimeoutException" -> "SSHTimeoutError"
      [] e = "ReadTimeout" -> "ReadTimeout or CommandMismatch"
      [] OTHER -> "Error"

\* What ping.ping can do with ping.EXCEPTIONS = True, and the entry
\* ping_check logs for it.
PingOutcomes ==
    {"ok", "Timeout", "TimeToLiveExpired", "PingError", "PermissionError",
     "Exception"}

ping_entries(p, hostname) ==
    CASE p = "Timeout" -> << <<"ERROR", "PingTimeout", ": ", hostname>> >>
      [] p = "TimeToLiveExpired" -> << <<"ERROR", "PingTTLExpired", ": ", hostname>> >>
      [] p = "PingError" -> << <<"ERROR", "PingUnreachable", ": ", hostname>> >>
      [] p = "PermissionError" ->
            << <<"ERROR", "PermissionError; OS requires root permission to send ICMP packets">> >>
      [] p = "Exception" ->
            << <<"ERROR", "Error", ": ", hostname>>, <<"DEBUG", "e">> >>
      [] OTHER -> << <<"INFO", "PingSuccess", ": ", hostname>> >>

\* The entries wrapper_except_proccess and the except clause log.
except_entries(e, p, hostname) ==
    ping_entries(p, hostname)
    \o << <<"ERROR", error_msg(e), ": ", hostname, "LF">> >>
    \o (IF e = "Exception" THEN << <<"ERROR", "e">> >> ELSE <<>>)

success_entries(hostname) == << <<"INFO", "SuccessfullyDone", ": ", hostname, "LF">> >>

\* How many handlers of the logger write to file p.
RECURSIVE HandlerCount(_, _)
HandlerCount(hs, p) ==
    IF hs = <<>> THEN 0
    ELSE (IF Head(hs) = p THEN 1 ELSE 0) + HandlerCount(Tail(hs), p)

RECURSIVE Repeat(_, _)
Repeat(entries, n) == IF n = 0 THEN <<>> ELSE entries \o Repeat(entries, n - 1)

\* A logger of the session alone: only the file handler added last emits.
Emit_last_handler(lg, hs, entries) ==
    [p \in DOMAIN lg |-> IF p = hs[Len(hs)] THEN lg[p] \o entries ELSE lg[p]]

\* One logger call per entry: every handler of the logger emits it.
Emit(lg, hs, entries) ==
    [p \in DOMAIN lg |->
        lg[p] \o Flatten([n \in 1..Len(entries) |->
                            Repeat(<<entries[n]>>, HandlerCount(hs, p))])]

StdErr == <<"<stderr>">>

\* output = self.connection.send_command(...) + '\n'
send_output(out) == out \o <<"LF">>

\* output = ... in place of output += ...
accumulate_overwrite(output, segment) == segment

\* output += self.single_send_command(command)
accumulate(output, segment) == output \o segment

\* A close() that leaves the connection as it is.
disconnect_nothing(open) == open

\* self.connection.disconnect(): one open connection fewer.
disconnect(open) == open - 1

\* A loop body that goes on to the next record without close().
after_exec_command_no_close == "for"

\* The statement of multi_connections that follows exec_command().
after_exec_command == "close"

\* A loop over the commands that catches the failure and sends again.
after_failed_command_retry == "single_send_command"

\* Where an exception raised while a command is sent takes control:
\* neither single_send_command nor multi_send_command has a try, so it
\* leaves the loop for the except clauses of exec_command.
after_failed_command == "except"


(***************************************************************************)
(* State.                                                                  *)
(***************************************************************************)
VARIABLES
    hostfile,    \* hostlist.csv as the run finds it
    cmdfile,     \* commandlist.csv as the run finds it
    library,     \* what the SSH library and ping3 can do in this run
    clock,       \* the wall clock, in half seconds
    pc,          \* the statement the program is at
    crash,       \* the exception that ended the program, "none" otherwise
    stdout,      \* what the readers have printed
    hlist,       \* main: result of read_hostlist
    clist,       \* main: result of read_commandlist
    logdir,      \* multi_connections: logdir
    dirs,        \* directories that exist
    files,       \* files that exist
    handlers,    \* handlers of the module-level logger, in the order added
    logs,        \* contents of the logging files
    i,           \* number of inventory records the for loop has taken
    session,     \* multi_connections: session, host -> NetmikoOperator
    exc,         \* exception raised inside exec_command's try
    output,      \* multi_send_command: output
    k,           \* multi_send_command: position in self.commands
    netOpen,     \* SSH connections the library holds open
    events,      \* history: what each device's session has done
    ret          \* history: what exec_command returned, per loop iteration

vars == <<hostfile, cmdfile, library, clock, pc, crash, stdout, hlist, clist, logdir,
          dirs, files, handlers, logs, i, session, exc, output, k, netOpen,
          events, ret>>

inputs == <<hostfile, cmdfile, library>>
sessionVars == <<session, exc, output, k, netOpen>>
fileVars == <<dirs, files, handlers, logs>>

Event(ev, cmd, arg) == [dev |-> i, ev |-> ev, cmd |-> cmd, arg |-> arg]

\* hinfo of the current iteration and the object session[hinfo["host"]].
hinfo == hlist.val[i]
self == session[hinfo.host]

InitRest ==
    /\ clock = 0
    /\ crash = "none"
    /\ stdout = <<>>
    /\ hlist = None
    /\ clist = None
    /\ logdir = <<>>
    /\ dirs = {}
    /\ files = {}
    /\ handlers = <<>>
    /\ logs = [p \in {} |-> <<>>]
    /\ i = 0
    /\ session = [h \in {} |-> <<>>]
    /\ exc = "none"
    /\ output = <<>>
    /\ k = 0
    /\ netOpen = 0
    /\ events = <<>>
    /\ ret = <<>>

\* A run over at most one device, with everything the libraries can do.
Init ==
    /\ hostfile \in HostFiles(1)
    /\ cmdfile \in CmdFiles(MaxCmds)
    /\ library = [raises |-> ExcClasses, pings |-> PingOutcomes]
    /\ pc = "main"
    /\ InitRest

\* A run over up to MaxHosts devices with at most one command, in which a
\* library call that fails raises an authentication failure or a read
\* timeout, and ping times out.  The other outcomes are those of Init.
InitRun ==
    /\ hostfile \in HostFiles(MaxHosts)
    /\ cmdfile \in CmdFiles(1)
    /\ library = [raises |-> {"NetMikoAuthenticationException", "ReadTimeout"},
                  pings |-> {"Timeout"}]
    /\ pc = "main"
    /\ InitRest

\* read_commandlist on its own.
InitCsv ==
    /\ hostfile = NoFile
    /\ cmdfile \in CsvFiles
    /\ library = [raises |-> {}, pings |-> {}]
    /\ pc = "csv"
    /\ InitRest

\* The clock advances while the program runs.
Tick ==
    /\ pc \notin {"done", "crashed", "csv", "csv_done"}
    /\ clock < MaxClock
    /\ clock' = clock + 1
    /\ UNCHANGED <<inputs, pc, crash, stdout, hlist, clist, logdir, fileVars, i,
                   sessionVars, events, ret>>

(***************************************************************************)
(* main.                                                                   *)
(***************************************************************************)
\* hlist = csv_ope.read_hostlist()
ReadHostlist ==
    /\ pc = "main"
    /\ hlist' = read_hostlist(hostfile).val
    /\ stdout' = IF hostfile.exists THEN stdout
                 ELSE Append(stdout, IOErrorMessage("hostlist.csv"))
    /\ pc' = "read_commandlist"
    /\ UNCHANGED <<inputs, clock, crash, clist, logdir, fileVars, i, sessionVars,
                   events, ret>>

\* clist = csv_ope.read_commandlist()
ReadCommandlist ==
    /\ pc = "read_commandlist"
    /\ LET r == read_commandlist(cmdfile)
       IN IF r.kind = "return"
          THEN /\ clist' = r.val
               /\ pc' = "multi_connections"
               /\ crash' = crash
          ELSE /\ clist' = clist
               /\ pc' = "crashed"
               /\ crash' = r.kind
    /\ stdout' = IF cmdfile.exists THEN stdout
                 ELSE Append(stdout, IOErrorMessage("commandlist.csv"))
    /\ UNCHANGED <<inputs, clock, hlist, logdir, fileVars, i, sessionVars,
                   events, ret>>

(***************************************************************************)
(* multi_connections.                                                      *)
(***************************************************************************)
\* timeinfo, logdir, ensure_dir_exists(logdir), session = {}
MultiConnections ==
    /\ pc = "multi_connections"
    /\ logdir' = LogDirName(strftime(clock))
    /\ dirs' = dirs \cup {logdir'}
    /\ session' = [h \in {} |-> <<>>]
    /\ pc' = "for"
    /\ UNCHANGED <<inputs, clock, crash, stdout, hlist, clist, files, handlers,
                   logs, i, exc, output, k, netOpen, events, ret>>

\* for hinfo in hlists, with hlists = None
ForNone ==
    /\ pc = "for"
    /\ hlist.isNone
    /\ pc' = "crashed"
    /\ crash' = "TypeError"
    /\ UNCHANGED <<inputs, clock, stdout, hlist, clist, logdir, fileVars, i,
                   sessionVars, events, ret>>

\* the loop is exhausted
ForEnd ==
    /\ pc = "for"
    /\ ~hlist.isNone
    /\ i >= Len(hlist.val)
    /\ pc' = "done"
    /\ UNCHANGED <<inputs, clock, crash, stdout, hlist, clist, logdir, fileVars,
                   i, sessionVars, events, ret>>

\* NetmikoOperator.__init__ with setup_logger: the object of the session.
NewOperator(host, commands, dir, timeinfo) ==
    LET prefix == file_prefix(dir, host.host, timeinfo)
    IN [hostname |-> host.host,
        timeinfo |-> timeinfo,
        commands |-> commands,
        res |-> {},
        logdir |-> dir,
        loggingfile |-> loggingfile_name(prefix),
        outputfile |-> outputfile_name(prefix),
        connection |-> "unset"]

\* session[hinfo["host"]] = NetmikoOperator(hinfo, clist, logdir)
ForNext ==
    /\ pc = "for"
    /\ ~hlist.isNone
    /\ i < Len(hlist.val)
    /\ i' = i + 1
    /\ LET h == hlist.val[i + 1]
           obj == NewOperator(h, clist, logdir, strftime(clock))
       IN /\ session' = [x \in (DOMAIN session) \cup {h.host} |->
                            IF x = h.host THEN obj ELSE session[x]]
          /\ handlers' = handlers \o <<StdErr, obj.loggingfile>>
          /\ files' = files \cup {obj.loggingfile}
          /\ logs' = [p \in (DOMAIN logs) \cup {obj.loggingfile} |->
                         IF p \in DOMAIN logs THEN logs[p] ELSE <<>>]
          /\ events' = Append(events,
                 [dev |-> i + 1, ev |-> "__init__", cmd |-> <<>>, arg |-> obj.outputfile])
    /\ exc' = "none"
    /\ pc' = "exec_command"
    /\ UNCHANGED <<inputs, clock, crash, stdout, hlist, clist, logdir, dirs,
                   output, k, netOpen, ret>>


(***************************************************************************)
(* NetmikoOperator.exec_command and close.                                 *)
(***************************************************************************)
SetConnection(c) ==
    [session EXCEPT ![hinfo.host] = [@ EXCEPT !.connection = c]]

\* self.res[command] = output
SetRes(res, command, out) ==
    {e \in res : e[1] # command} \cup {<<command, out>>}

\* connect_autodetect, first statement: SSHDetect(**remote_device) opens the
\* session log and a connection of its own; autodetect() works over that
\* connection and disconnects it before it returns the device type.  Either
\* call can raise.
SSHDetectStep ==
    /\ pc = "exec_command"
    /\ files' = files \cup {self.outputfile}
    /\ \/ \E e \in library.raises :          \* SSHDetect(...) raises
            /\ events' = Append(events, Event("raise", <<>>, <<e>>))
            /\ exc' = e
            /\ pc' = "except"
            /\ netOpen' = netOpen
       \/ \E e \in library.raises :          \* autodetect() raises
            /\ events' = events \o <<Event("SSHDetect", <<>>, <<>>),
                                      Event("raise", <<>>, <<e>>)>>
            /\ exc' = e
            /\ pc' = "except"
            /\ netOpen' = netOpen + 1
       \/ /\ events' = events \o <<Event("SSHDetect", <<>>, <<>>),
                                    Event("autodetect.disconnect", <<>>, <<>>)>>
          /\ exc' = exc
          /\ pc' = "ConnectHandler"
          /\ netOpen' = netOpen
    /\ UNCHANGED <<inputs, clock, crash, stdout, hlist, clist, logdir, dirs,
                   handlers, logs, i, session, output, k, ret>>

\* connect_autodetect, second statement: self.connection = ConnectHandler(...)
ConnectHandlerStep ==
    /\ pc = "ConnectHandler"
    /\ files' = files \cup {self.outputfile}
    /\ \E r \in {"ok"} \cup library.raises :
          IF r = "ok"
          THEN /\ events' = Append(events, Event("ConnectHandler", <<>>, <<>>))
               /\ session' = SetConnection("open")
               /\ netOpen' = netOpen + 1
               /\ pc' = "multi_send_command"
               /\ exc' = exc
          ELSE /\ events' = Append(events, Event("raise", <<>>, <<r>>))
               /\ session' = session
               /\ netOpen' = netOpen
               /\ pc' = "except"
               /\ exc' = r
    /\ UNCHANGED <<inputs, clock, crash, stdout, hlist, clist, logdir, dirs,
                   handlers, logs, i, output, k, ret>>

\* multi_send_command: output = "" and the start of the loop over
\* self.commands, which raises TypeError when the list is None.
MultiSendCommand ==
    /\ pc = "multi_send_command"
    /\ output' = <<>>
    /\ IF self.commands.isNone
       THEN /\ events' = Append(events, Event("raise", <<>>, <<"Exception">>))
            /\ exc' = "Exception"
            /\ pc' = "except"
            /\ k' = k
       ELSE /\ events' = events
            /\ exc' = exc
            /\ pc' = "single_send_command"
            /\ k' = 1
    /\ UNCHANGED <<inputs, clock, crash, stdout, hlist, clist, logdir, fileVars,
                   i, session, netOpen, ret>>

\* An enable() that only the first command of the session calls.
connection_enable_once(command) ==
    IF k = 1 THEN <<Event("enable", command, <<>>)>> ELSE <<>>

\* self.connection.enable(), the first statement of single_send_command.
connection_enable(command) == <<Event("enable", command, <<>>)>>

\* One turn of the loop: single_send_command(command) and output += ...
SingleSendCommand ==
    /\ pc = "single_send_command"
    /\ k <= Len(self.commands.val)
    /\ LET command == self.commands.val[k]
       IN \/ \E e \in library.raises :          \* connection.enable() raises
               /\ events' = events \o connection_enable(command) \o
                               <<Event("raise", command, <<e>>)>>
               /\ exc' = e
               /\ pc' = after_failed_command
               /\ UNCHANGED <<session, output, k>>
          \/ \E e \in library.raises :          \* connection.send_command() raises
               /\ events' = events \o connection_enable(command) \o
                               <<Event("send_command", command, <<>>),
                                 Event("raise", command, <<e>>)>>
               /\ exc' = e
               /\ pc' = after_failed_command
               /\ UNCHANGED <<session, output, k>>
          \/ \E out \in Outputs :
               /\ events' = events \o connection_enable(command) \o
                               <<Event("send_command", command, <<>>),
                                 Event("output", command, out)>>
               /\ session' = [session EXCEPT ![hinfo.host] =
                                [@ EXCEPT !.res = SetRes(@, command, send_output(out))]]
               /\ output' = accumulate(output, send_output(out))
               /\ k' = k + 1
               /\ UNCHANGED <<exc, pc>>
    /\ UNCHANGED <<inputs, clock, crash, stdout, hlist, clist, logdir, fileVars,
                   i, netOpen, ret>>

\* The loop is over: multi_send_command returns output and exec_command
\* takes its else branch.
ExecElse ==
    /\ pc = "single_send_command"
    /\ k > Len(self.commands.val)
    /\ logs' = Emit(logs, handlers, success_entries(self.hostname))
    /\ ret' = Append(ret, Some(output))
    /\ events' = Append(events, Event("return", <<>>, output))
    /\ pc' = after_exec_command
    /\ UNCHANGED <<inputs, clock, crash, stdout, hlist, clist, logdir, dirs,
                   files, handlers, i, sessionVars>>

\* A ping_check without except clauses: what ping raises leaves it.
ping_check_uncaught(p) == IF p = "ok" THEN "none" ELSE p

\* The exception that leaves ping_check when ping.ping does p: none, the
\* except clauses end in "except Exception" and none of them raises.
ping_check(p) == "none"

\* An except clause of exec_command: wrapper_except_proccess (ping_check,
\* the error entry, rename_logfile), then the function returns None.
ExecExcept ==
    /\ pc = "except"
    /\ \E p \in library.pings :
          LET renamed == loginfo_renamed(self.outputfile, error_msg(exc))
          IN IF ping_check(p) = "none" /\ self.outputfile \in files
             THEN /\ logs' = Emit(logs, handlers, except_entries(exc, p, self.hostname))
                  /\ files' = os_rename(files, self.outputfile, renamed)
                  /\ events' = events \o <<Event("ping", <<>>, <<p>>),
                                            Event("rename", <<>>, renamed),
                                            Event("return", <<>>, <<>>)>>
                  /\ ret' = Append(ret, None)
                  /\ pc' = after_exec_command
                  /\ crash' = crash
             ELSE /\ logs' = IF ping_check(p) # "none" THEN logs
                             ELSE Emit(logs, handlers,
                                       SubSeq(except_entries(exc, p, self.hostname), 1,
                                              Len(ping_entries(p, self.hostname)) + 1))
                  /\ files' = files
                  /\ events' = Append(events, Event("ping", <<>>, <<p>>))
                  /\ ret' = ret
                  /\ pc' = "crashed"
                  /\ crash' = IF ping_check(p) # "none" THEN ping_check(p)
                              ELSE "FileNotFoundError"
    /\ UNCHANGED <<inputs, clock, stdout, hlist, clist, logdir, dirs, handlers,
                   i, session, exc, output, k, netOpen>>

\* session[hinfo["host"]].close(): self.connection.disconnect(), which
\* raises AttributeError when connect_autodetect never set self.connection.
Close ==
    /\ pc = "close"
    /\ IF self.connection = "unset"
       THEN /\ events' = Append(events, Event("close", <<>>, <<>>))
            /\ pc' = "crashed"
            /\ crash' = "AttributeError"
            /\ UNCHANGED <<session, netOpen>>
       ELSE /\ events' = events \o <<Event("close", <<>>, <<>>),
                                      Event("disconnect", <<>>, <<>>)>>
            /\ session' = SetConnection("closed")
            /\ netOpen' = disconnect(netOpen)
            /\ pc' = "for"
            /\ crash' = crash
    /\ UNCHANGED <<inputs, clock, stdout, hlist, clist, logdir, fileVars, i, exc,
                   output, k, ret>>

Next ==
    \/ Tick
    \/ ReadHostlist
    \/ ReadCommandlist
    \/ MultiConnections
    \/ ForNone
    \/ ForEnd
    \/ ForNext
    \/ SSHDetectStep
    \/ ConnectHandlerStep
    \/ MultiSendCommand
    \/ SingleSendCommand
    \/ ExecElse
    \/ ExecExcept
    \/ Close

Spec == Init /\ [][Next]_vars

SpecRun == InitRun /\ [][Next]_vars

\* CSVOperator().read_commandlist() called by itself.
ReadCommandlistAlone ==
    /\ pc = "csv"
    /\ LET r == read_commandlist(cmdfile)
       IN /\ clist' = r.val
          /\ crash' = IF r.kind = "return" THEN crash ELSE r.kind
          /\ pc' = "csv_done"
    /\ stdout' = IF cmdfile.exists THEN stdout
                 ELSE Append(stdout, IOErrorMessage("commandlist.csv"))
    /\ UNCHANGED <<inputs, clock, hlist, logdir, fileVars, i, sessionVars,
                   events, ret>>

NextCsv == ReadCommandlistAlone

SpecCsv == InitCsv /\ [][NextCsv]_vars


(***************************************************************************)
(* Vocabulary of the properties.                                           *)
(***************************************************************************)
RunEnded == pc \in {"done", "crashed"}

\* Both readers returned a list: the files exist and the command file has
\* its header line.
ReadersSucceeded == hostfile.exists /\ cmdfile.exists /\ cmdfile.rows # <<>>

Inventory == hostfile.rows

UniqueHosts ==
    \A m, n \in 1..Len(Inventory) : m # n => Inventory[m].host # Inventory[n].host

EventsOf(d, name) == {n \in 1..Len(events) : events[n].dev = d /\ events[n].ev = name}

Contains(f, token) == \E n \in 1..Len(f) : f[n] = token

\* The files of a device in the run directory: its logging files carry
\* "-logging", its transcripts are the others.
LoggingFilesOf(h) == {f \in files : Len(f) >= 4 /\ f[4] = h /\ Contains(f, "-logging")}
TranscriptsOf(h) == {f \in files : Len(f) >= 4 /\ f[4] = h /\ ~Contains(f, "-logging")}

\* exec_command has returned for the device the loop is at, without a result.
SessionFailed == i >= 1 /\ Len(ret) = i /\ ret[i].isNone
\* ... and with one.
SessionSucceeded == i >= 1 /\ Len(ret) = i /\ ~ret[i].isNone

(***************************************************************************)
(* C1: whatever SSH failures occur, the run is not aborted and every       *)
(* device of the inventory has exec_command run on it.  Stated for a run   *)
(* that has ended after both readers returned a list.                      *)
(***************************************************************************)
C1_EveryDeviceExecuted ==
    (RunEnded /\ ReadersSucceeded) => Len(ret) = Len(Inventory)

(***************************************************************************)
(* C2: devices are processed one at a time in inventory order: the events  *)
(* of device d+1 begin with its session's creation, directly after the     *)
(* close of device d, whose connect and exec_command lie before; this also *)
(* after a failure of device d.  The d-th session is that of the d-th      *)
(* inventory record.                                                       *)
(***************************************************************************)
C2_StrictlySequential ==
    /\ events # <<>> => events[1].dev = 1 /\ events[1].ev = "__init__"
    /\ \A n \in 1..(Len(events) - 1) :
          LET a == events[n]
              b == events[n + 1]
          IN a.dev # b.dev =>
                /\ b.dev = a.dev + 1
                /\ b.ev = "__init__"
                /\ a.ev = "disconnect"
                /\ EventsOf(a.dev, "ConnectHandler") # {}
                /\ EventsOf(a.dev, "return") # {}
                /\ EventsOf(a.dev, "close") # {}
    /\ \A n \in 1..Len(events) :
          events[n].ev = "__init__" =>
             /\ events[n].dev <= Len(Inventory)
             /\ events[n].arg[4] = Inventory[events[n].dev].host

\* The second device is begun after the first one failed.
C2_Witness ==
    /\ EventsOf(1, "raise") # {}
    /\ EventsOf(2, "__init__") # {}

(***************************************************************************)
(* C3: after exec_command returns from a failed session, exactly one       *)
(* transcript of the device exists, it is a renamed one that embeds the    *)
(* tag of the failure class, the un-renamed transcript is gone, and the    *)
(* four classes have pairwise distinct tags.                               *)
(***************************************************************************)
C3_FailedTranscriptRenamed ==
    /\ \A e1, e2 \in ExcClasses : e1 # e2 => error_msg(e1) # error_msg(e2)
    /\ SessionFailed =>
          /\ exc \in ExcClasses
          /\ self.outputfile \notin files
          /\ Cardinality(TranscriptsOf(self.hostname)) = 1
          /\ \A f \in TranscriptsOf(self.hostname) :
                /\ Contains(f, error_msg(exc))
                /\ \A e \in ExcClasses \ {exc} : ~Contains(f, error_msg(e))

\* A session that failed with a read timeout while a command was sent.
C3_Witness ==
    /\ SessionFailed
    /\ exc = "ReadTimeout"
    /\ EventsOf(i, "send_command") # {}

(***************************************************************************)
(* C4: when the inventory file or the command file cannot be opened, the   *)
(* reader reports the path and returns nothing, and the run goes on as a   *)
(* run with no devices: it does not crash and creates no session.  Stated  *)
(* for a command file that, if there is one, has its header line.          *)
(***************************************************************************)
C4_MissingFileMeansNoDevices ==
    /\ (~hostfile.exists /\ pc # "main") =>
          /\ hlist = None
          /\ Contains(stdout, IOErrorMessage("hostlist.csv"))
    /\ (~cmdfile.exists /\ pc \notin {"main", "read_commandlist"}) =>
          /\ clist = None
          /\ Contains(stdout, IOErrorMessage("commandlist.csv"))
    /\ ((~hostfile.exists \/ ~cmdfile.exists)
          /\ (cmdfile.exists => cmdfile.rows # <<>>)) =>
          /\ pc # "crashed"
          /\ events = <<>>

(***************************************************************************)
(* C5: at the end of a run over an inventory of unique hosts every device  *)
(* has exactly one transcript file and exactly one logging file.           *)
(***************************************************************************)
C5_OneTranscriptOneLogPerDevice ==
    (RunEnded /\ ReadersSucceeded /\ UniqueHosts) =>
        \A d \in 1..Len(Inventory) :
            /\ Cardinality(TranscriptsOf(Inventory[d].host)) = 1
            /\ Cardinality(LoggingFilesOf(Inventory[d].host)) = 1


(***************************************************************************)
(* C6 as stated: the transcript of a failed session is renamed to          *)
(* <logdir>/<host>-<ts>-JST-<tag>.log, the tag after "-JST" and one ".log" *)
(* in the name.                                                            *)
(***************************************************************************)
Occurrences(f, token) == Cardinality({n \in 1..Len(f) : f[n] = token})

C6_TagAfterJST ==
    SessionFailed =>
        /\ (logdir \o <<"/", self.hostname, "-", self.timeinfo, "-JST", "-",
                        error_msg(exc), ".log">>) \in files
        /\ \A f \in TranscriptsOf(self.hostname) : Occurrences(f, ".log") = 1

(***************************************************************************)
(* C6 as amended: the transcript of a failed session is renamed to its     *)
(* whole former name with "-<tag>.log" appended, that is to                *)
(* <logdir>/<host>-<ts>-JST.log-<tag>.log with ts the time stamp of the    *)
(* session: the tag comes after "-JST.log" and the name has ".log" twice.  *)
(* An authentication error gives the tag SSHAuthenticationError.           *)
(***************************************************************************)
C6_TagAfterLogSuffix ==
    SessionFailed =>
        /\ TranscriptsOf(self.hostname) =
              {logdir \o <<"/", self.hostname, "-", self.timeinfo, "-JST", ".log",
                           "-", error_msg(exc), ".log">>}
        /\ \A f \in TranscriptsOf(self.hostname) : Occurrences(f, ".log") = 2
        /\ exc = "NetMikoAuthenticationException" =>
              \A f \in TranscriptsOf(self.hostname) : f[10] = "SSHAuthenticationError"

\* An authentication error on h1 has been handled.
C6_Witness ==
    /\ SessionFailed
    /\ exc = "NetMikoAuthenticationException"
    /\ self.hostname = "h1"

(***************************************************************************)
(* C7: the result of a successful exec_command over [c1..ck] is the        *)
(* outputs the device gave for c1..ck, in that order, each followed by one *)
(* line terminator: k segments, also when a command occurs twice.          *)
(***************************************************************************)
OutputsOf(d) == SelectSeq(events, LAMBDA e : e.dev = d /\ e.ev = "output")

C7_ResultIsConcatenation ==
    SessionSucceeded =>
        LET outs == OutputsOf(i)
        IN /\ Len(outs) = Len(clist.val)
           /\ \A n \in 1..Len(outs) : outs[n].cmd = clist.val[n]
           /\ ret[i].val = Flatten([n \in 1..Len(outs) |-> outs[n].arg \o <<"LF">>])

\* The same command twice, answered differently.
C7_Witness ==
    /\ SessionSucceeded
    /\ Len(clist.val) = 2
    /\ clist.val[1] = clist.val[2]
    /\ OutputsOf(i)[1].arg # OutputsOf(i)[2].arg

(***************************************************************************)
(* C8 as stated: the time stamp in every transcript and logging file name  *)
(* is the time stamp of the run directory.                                 *)
(***************************************************************************)
C8_OneTimestampPerRun ==
    \A f \in files : f[6] = logdir[2]

(***************************************************************************)
(* C8 as amended: the run directory is named once per run, from the clock  *)
(* at the start of multi_connections, and every file of the run lies in    *)
(* it; the time stamp in a device's transcript and logging file names is   *)
(* taken from the clock when that device's session object is created, the  *)
(* same in both names.                                                     *)
(***************************************************************************)
C8_SessionTimestamp ==
    /\ [](\A f \in files : SubSeq(f, 1, 2) = logdir /\ logdir \in dirs)
    /\ [][(pc = "multi_connections" /\ pc' = "for" =>
                logdir' = <<"log-", strftime(clock)>>)
          /\ (logdir' # logdir => pc = "multi_connections" /\ pc' = "for")
          /\ (pc = "for" /\ pc' = "exec_command" =>
                LET o == session'[hlist.val[i'].host]
                    stem == logdir \o <<"/", o.hostname, "-", strftime(clock), "-JST">>
                IN /\ o.outputfile = stem \o <<".log">>
                   /\ o.loggingfile = stem \o <<"-logging", ".log">>
                   /\ o.loggingfile \in files')]_vars

\* The second device's names carry another time stamp than the directory.
C8_Witness ==
    /\ i = 2
    /\ pc = "exec_command"
    /\ self.loggingfile \in files
    /\ self.loggingfile[6] # logdir[2]

(***************************************************************************)
(* C9 as stated: between the creation of a device's session object and its *)
(* close at most one SSH connection to the host is established, and none   *)
(* is open after close.                                                    *)
(***************************************************************************)
ClosedAgain == events # <<>> /\ events[Len(events)].ev = "disconnect"

C9_OneConnectionPerDevice ==
    /\ \A d \in 1..i :
          Cardinality(EventsOf(d, "SSHDetect") \cup EventsOf(d, "ConnectHandler")) <= 1
    /\ ClosedAgain => netOpen = 0

(***************************************************************************)
(* C9 as amended: for each inventory record at most two SSH connections    *)
(* are established, one by SSHDetect and, once autodetect() has            *)
(* disconnected it, one by ConnectHandler for the commands; never two are  *)
(* open at a time, and none is open when close has returned.               *)
(***************************************************************************)
C9_TwoConnectionsInTurn ==
    /\ \A d \in 1..i :
          /\ Cardinality(EventsOf(d, "SSHDetect")) <= 1
          /\ Cardinality(EventsOf(d, "ConnectHandler")) <= 1
          /\ \A n \in EventsOf(d, "ConnectHandler") :
                \E m \in EventsOf(d, "autodetect.disconnect") : m < n
    /\ netOpen \in {0, 1}
    /\ ClosedAgain => netOpen = 0
    /\ pc \in {"for", "done"} => netOpen = 0

\* A device that had both connections has been closed.
C9_Witness ==
    /\ ClosedAgain
    /\ EventsOf(i, "SSHDetect") # {}
    /\ EventsOf(i, "ConnectHandler") # {}

(***************************************************************************)
(* C10: for a command file of a header line and M data lines,              *)
(* read_commandlist returns the M data lines in file order.                *)
(***************************************************************************)
C10_ReturnsDataLines ==
    (pc = "csv_done" /\ cmdfile.exists /\ cmdfile.rows # <<>>) =>
        /\ crash = "none"
        /\ clist = Some(Tail(cmdfile.rows))

\* The same for files none of whose lines holds a line boundary of
\* str.splitlines other than its line end.
C10_WithoutOtherBoundaries ==
    (pc = "csv_done" /\ cmdfile.exists /\ cmdfile.rows # <<>>
       /\ \A n \in 1..Len(cmdfile.rows) : ~Contains(cmdfile.rows[n], "FF")) =>
        /\ crash = "none"
        /\ clist = Some(Tail(cmdfile.rows))

(***************************************************************************)
(* C11: every session goes Created -> Connected -> Executing -> Closed or  *)
(* Created -> Connected -> Executing -> Failed -> Closed: close() is only  *)
(* invoked on a session whose connection ConnectHandler established, and   *)
(* when the run has ended every session that was created, failed during    *)
(* connect or later or not at all, has been disconnected.                  *)
(***************************************************************************)
C11_SessionLifecycle ==
    /\ \A d \in 1..i :
          \A n \in EventsOf(d, "close") :
              /\ \E m \in EventsOf(d, "ConnectHandler") : m < n
              /\ session[Inventory[d].host].connection # "unset"
    /\ RunEnded =>
          \A d \in 1..i :
              /\ EventsOf(d, "disconnect") # {}
              /\ session[Inventory[d].host].connection = "closed"

(***************************************************************************)
(* C12: when sending command c_j of [c1..ck] fails, no later command is    *)
(* sent to the device and c_j is not sent again: the commands sent are     *)
(* c1..cj, each once and in order, and after the failure the session only  *)
(* handles it and closes.  The session is classified as failed (its        *)
(* transcript is renamed with the tag of the exception) and exec_command   *)
(* returns no output for the device.                                       *)
(***************************************************************************)
CommandFailures(d) ==
    {n \in EventsOf(d, "raise") : n > 1 /\ events[n - 1].ev \in {"enable", "send_command"}}

EnablesOf(d) == SelectSeq(events, LAMBDA e : e.dev = d /\ e.ev = "enable")
SendsOf(d) == SelectSeq(events, LAMBDA e : e.dev = d /\ e.ev = "send_command")

C12_FailureAbortsRemaining ==
    \A d \in 1..i :
        \A n \in CommandFailures(d) :
            LET j == Len(EnablesOf(d))
            IN /\ \A m \in (n + 1)..Len(events) :
                     events[m].dev = d =>
                         events[m].ev \in {"ping", "rename", "return", "close", "disconnect"}
               /\ j = Len(OutputsOf(d)) + 1
               /\ j <= Len(clist.val)
               /\ Len(SendsOf(d)) \in {j - 1, j}
               /\ \A m \in 1..Len(SendsOf(d)) : SendsOf(d)[m].cmd = clist.val[m]
               /\ EventsOf(d, "return") # {} =>
                     /\ Len(ret) >= d
                     /\ ret[d] = None
                     /\ \E m \in EventsOf(d, "rename") :
                           /\ m > n
                           /\ Contains(events[m].arg, error_msg(events[n].arg[1]))

\* The first of two commands failed while it was sent, and exec_command
\* has returned.
C12_Witness ==
    /\ SessionFailed
    /\ Len(clist.val) = 2
    /\ CommandFailures(i) # {}
    /\ Len(SendsOf(i)) = 1
    /\ Len(OutputsOf(i)) = 0

(***************************************************************************)
(* C13 as stated: a session enters privileged mode once: enable() is       *)
(* invoked at most once per device, and exactly once, before the first     *)
(* command, in a session that sends a command.                             *)
(***************************************************************************)
C13_EnableOncePerSession ==
    \A d \in 1..i :
        /\ Len(EnablesOf(d)) <= 1
        /\ \A n \in EventsOf(d, "send_command") :
              /\ Len(EnablesOf(d)) = 1
              /\ \E m \in EventsOf(d, "enable") : m < n

(***************************************************************************)
(* C13 as amended: enable() is invoked once per command, directly before   *)
(* that command is sent: the j-th enable() of a session precedes the       *)
(* sending of c_j, no command is sent without it, and a session that sent  *)
(* all of [c1..ck] has invoked enable() k times.                           *)
(***************************************************************************)
C13_EnableBeforeEachCommand ==
    /\ \A n \in 1..Len(events) :
          events[n].ev = "send_command" =>
              /\ n > 1
              /\ events[n - 1].ev = "enable"
              /\ events[n - 1].dev = events[n].dev
              /\ events[n - 1].cmd = events[n].cmd
    /\ \A d \in 1..i :
          /\ Len(EnablesOf(d)) \in {Len(SendsOf(d)), Len(SendsOf(d)) + 1}
          /\ \A m \in 1..Len(EnablesOf(d)) : EnablesOf(d)[m].cmd = clist.val[m]
    /\ SessionSucceeded => Len(EnablesOf(i)) = Len(clist.val)

\* A session that sent two commands has returned their output.
C13_Witness ==
    /\ SessionSucceeded
    /\ Len(clist.val) = 2
    /\ Len(SendsOf(i)) = 2
    /\ Len(EnablesOf(i)) = 2

(***************************************************************************)
(* C14: the ping probe is diagnostic only.  Whatever ping does (answer,    *)
(* timeout, TTL expired, unreachable, permission denied, another           *)
(* exception), what follows is the same: the tag of the SSH failure is     *)
(* logged, the transcript is renamed with that tag, and exec_command       *)
(* returns without a result to multi_connections, which goes on to         *)
(* close().  No ping outcome ends the run or takes part in the tag.        *)
(***************************************************************************)
OutputfileOf(d) == events[CHOOSE m \in EventsOf(d, "__init__") : TRUE].arg

C14_PingIsDiagnosticOnly ==
    /\ crash \notin PingOutcomes
    /\ \A n \in 1..Len(events) :
          events[n].ev = "ping" =>
              LET d == events[n].dev
                  tag == error_msg(events[n - 1].arg[1])
                  renamed == OutputfileOf(d) \o <<"-", tag, ".log">>
              IN /\ events[n].arg[1] \in PingOutcomes
                 /\ events[n - 1].ev = "raise"
                 /\ events[n - 1].dev = d
                 /\ Len(events) >= n + 2
                 /\ events[n + 1] = [dev |-> d, ev |-> "rename", cmd |-> <<>>, arg |-> renamed]
                 /\ events[n + 2] = [dev |-> d, ev |-> "return", cmd |-> <<>>, arg |-> <<>>]
                 /\ Len(events) >= n + 3 => events[n + 3].ev = "close"
                 /\ ret[d] = None
                 /\ Len(events) = n + 2 =>
                       /\ pc = "close"
                       /\ OutputfileOf(d) = self.outputfile
                       /\ renamed \in files
                       /\ self.outputfile \notin files
                       /\ \E m \in 1..Len(logs[self.loggingfile]) :
                             /\ logs[self.loggingfile][m] =
                                   <<"ERROR", tag, ": ", self.hostname, "LF">>
                             /\ \A q \in (m + 1)..Len(logs[self.loggingfile]) :
                                   logs[self.loggingfile][q] \in {<<"ERROR", "e">>,
                                       <<"ERROR", tag, ": ", self.hostname, "LF">>}

\* A session that timed out has been renamed although ping was denied.
C14_Witness ==
    /\ SessionFailed
    /\ exc = "NetMikoTimeoutException"
    /\ pc = "close"
    /\ \E n \in EventsOf(i, "ping") : events[n].arg[1] = "PermissionError"

(***************************************************************************)
(* C15: the logger is one object shared by all sessions and its handlers   *)
(* are only added: after the k-th session object is created it holds 2k    *)
(* handlers, a stream handler and the handler of the logging file for each *)
(* of the devices 1..k, and a step that logs while the k-th device is      *)
(* processed writes the same entries to the logging files of all devices   *)
(* 1..k, among them the entry that names the k-th device.                  *)
(***************************************************************************)
LoggingfileOf(d) == SubSeq(OutputfileOf(d), 1, 7) \o <<"-logging", ".log">>

Written(f) == SubSeq(logs'[f], Len(logs[f]) + 1, Len(logs'[f]))

EntriesOf(es) == {es[n] : n \in 1..Len(es)}

C15_SharedLoggerHandlers ==
    /\ [](/\ Len(handlers) = 2 * i
          /\ \A d \in 1..i :
                /\ handlers[2 * d - 1] = StdErr
                /\ handlers[2 * d] = LoggingfileOf(d)
                /\ LoggingfileOf(d) \in DOMAIN logs)
    /\ [][/\ Len(handlers') >= Len(handlers)
          /\ SubSeq(handlers', 1, Len(handlers)) = handlers
          /\ (logs' # logs /\ i' = i) =>
                \A d \in 1..i :
                    /\ EntriesOf(Written(LoggingfileOf(d))) =
                          EntriesOf(Written(LoggingfileOf(i)))
                    /\ \E e \in EntriesOf(Written(LoggingfileOf(d))) :
                          /\ Len(e) = 5
                          /\ e[2] \in {"SuccessfullyDone"} \cup {error_msg(x) : x \in ExcClasses}
                          /\ e[4] = Inventory[i].host]_vars

\* The logging file of the first device holds an entry about the second.
C15_Witness ==
    /\ i = 2
    /\ Len(handlers) = 4
    /\ Inventory[1].host # Inventory[2].host
    /\ \E e \in EntriesOf(logs[handlers[2]]) : Len(e) = 5 /\ e[4] = Inventory[2].host

(***************************************************************************)
(* C16: for a command file that opens and holds no line, read_commandlist  *)
(* neither returns an empty list nor reports an I/O error: removing the    *)
(* header raises IndexError, which nothing catches, so the run ends there, *)
(* before multi_connections creates the run directory or any session.      *)
(***************************************************************************)
C16_EmptyCommandFileAborts ==
    (cmdfile.exists /\ cmdfile.text = <<>>) =>
        /\ read_commandlist(cmdfile).kind = "IndexError"
        /\ pc \in {"main", "read_commandlist", "crashed"}
        /\ pc = "crashed" =>
              /\ crash = "IndexError"
              /\ clist # Some(<<>>)
              /\ ~Contains(stdout, IOErrorMessage("commandlist.csv"))
              /\ i = 0
              /\ events = <<>>
              /\ ret = <<>>
              /\ dirs = {}
              /\ files = {}

\* The run over an inventory of one device has ended at the empty command
\* file.
C16_Witness ==
    /\ cmdfile.exists
    /\ cmdfile.text = <<>>
    /\ Len(Inventory) = 1
    /\ hlist = Some(Inventory)
    /\ pc = "crashed"
    /\ crash = "IndexError"

====
